---- MODULE Spec2Model ----
(***************************************************************************)
(* onnx_tf/backend.py: translation of one ONNX node into TensorFlow        *)
(* operator invocations (TensorflowBackend.run_node and what it calls).    *)
(*                                                                         *)
(* Strings whose characters matter (operator type names) are sequences of  *)
(* one-character strings; Join turns them into a TLA+ string for the       *)
(* dictionary lookups.  Python objects carried by attributes are records   *)
(* [t |-> kind, v |-> sequence of integers].                               *)
(*                                                                         *)
(* Left to the libraries and not modelled: what the base class does in     *)
(* super().run_node (line 155), the unused input_tensors list (line        *)
(* 158-160), the warnings of handle_selu and handle_sub, and what the       *)
(* TensorFlow functions compute: an operator is the record of the function *)
(* called and its arguments, and sess.run(op) is Eval(op).                 *)
(***************************************************************************)
EXTENDS Integers, Sequences, FiniteSets, TLC

VARIABLES
  pc,           \* position inside run_node
  proto,        \* the NodeProto handed to run_node
  inputs,       \* the inputs argument: [isdict, seq, map]
  device,       \* the device argument
  node,         \* OnnxNode(node)
  device_option,
  input_dict,   \* name -> tf.constant(value)
  op_name_lowered,
  handler,      \* the translation rule _onnx_node_to_tensorflow_op called
  ops,          \* what _onnx_node_to_tensorflow_op returned
  sess,         \* "none" | "open" | "closed"
  device_ctx,   \* the device of the enclosing tf.device block, "" outside
  output_vals,
  result,       \* the namedtuple run_node returns
  err,          \* the exception that ended run_node, NoErr if none
  log           \* history of the steps taken, in order

vars == <<pc, proto, inputs, device, node, device_option, input_dict,
          op_name_lowered, handler, ops, sess, device_ctx, output_vals,
          result, err, log>>

-----------------------------------------------------------------------------
(* Bounds of the enumerated calls *)

MaxInputs == 2      \* longest node.input / inputs sequence enumerated
MaxOutputs == 2     \* most outputs a Split node declares
MaxNameLen == 3     \* longest arbitrary op_type string enumerated
MaxAttrs == 2       \* most attributes on an enumerated node
MaxListLen == 1     \* longest repeated field of an enumerated AttributeProto

-----------------------------------------------------------------------------
(* Characters and strings *)

UpperChars == <<"A","B","C","D","E","F","G","H","I","J","K","L","M",
                "N","O","P","Q","R","S","T","U","V","W","X","Y","Z">>
LowerChars == <<"a","b","c","d","e","f","g","h","i","j","k","l","m",
                "n","o","p","q","r","s","t","u","v","w","x","y","z">>

IsUpper(c) == \E i \in DOMAIN UpperChars : UpperChars[i] = c

\* str.lower() on one character
ToLower(c) ==
  IF IsUpper(c)
    THEN LowerChars[CHOOSE i \in DOMAIN UpperChars : UpperChars[i] = c]
    ELSE c

\* str.lower()
StrLower(s) == [i \in 1..Len(s) |-> ToLower(s[i])]

\* re.sub('(?<!^)(?=[A-Z])', '_', name): the empty match before position i
\* (1-based) is replaced by "_" when it is not the start of the string and the
\* character at i is in [A-Z].
RECURSIVE ReSubFrom(_, _)
ReSubFrom(name, i) ==
  IF i > Len(name) THEN <<>>
  ELSE (IF i # 1 /\ IsUpper(name[i]) THEN <<"_">> ELSE <<>>)
       \o <<name[i]>> \o ReSubFrom(name, i + 1)

\* a plausible bug: the lookbehind (?<!^) left out
RECURSIVE ReSubNoLookbehind(_, _)
ReSubNoLookbehind(name, i) ==
  IF i > Len(name) THEN <<>>
  ELSE (IF IsUpper(name[i]) THEN <<"_">> ELSE <<>>)
       \o <<name[i]>> \o ReSubNoLookbehind(name, i + 1)

op_name_to_lower_nolookbehind(name) == StrLower(ReSubNoLookbehind(name, 1))

op_name_to_lower(name) == StrLower(ReSubFrom(name, 1))

RECURSIVE Join(_)
Join(s) == IF s = <<>> THEN "" ELSE Head(s) \o Join(Tail(s))

-----------------------------------------------------------------------------
(* Python objects *)

Val(kind, v) == [t |-> kind, v |-> v]
None == Val("None", <<>>)
NoErr == [exc |-> "", what |-> ""]
Raise(exc, what) == [exc |-> exc, what |-> what]
EmptyDict == [k \in {} |-> None]

\* tf.constant(v)
Constant(v) == [const |-> v]

\* sess.run(op)
Eval(op) == [value_of |-> op]

\* AttributeProto.HasField(field)
HasField(onnx_arg, field) == field \in onnx_arg.has

\* a plausible bug: the i branch tested before the f branch
convertAttributeProto_i_first(onnx_arg) ==
  IF HasField(onnx_arg, "i") THEN [ok |-> TRUE, val |-> Val("i", <<onnx_arg.i>>)]
  ELSE IF HasField(onnx_arg, "f") THEN [ok |-> TRUE, val |-> Val("f", <<onnx_arg.f>>)]
  ELSE IF HasField(onnx_arg, "s") THEN [ok |-> TRUE, val |-> Val("s", onnx_arg.s)]
  ELSE IF HasField(onnx_arg, "t") THEN [ok |-> TRUE, val |-> Val("t", <<onnx_arg.t>>)]
  ELSE IF onnx_arg.floats # <<>> THEN [ok |-> TRUE, val |-> Val("floats", onnx_arg.floats)]
  ELSE IF onnx_arg.ints # <<>> THEN [ok |-> TRUE, val |-> Val("ints", onnx_arg.ints)]
  ELSE IF onnx_arg.strings # <<>> THEN [ok |-> TRUE, val |-> Val("strings", onnx_arg.strings)]
  ELSE [ok |-> FALSE, val |-> None]

\* convertAttributeProto: [ok, val]; ok = FALSE is the ValueError
convertAttributeProto(onnx_arg) ==
  IF HasField(onnx_arg, "f") THEN [ok |-> TRUE, val |-> Val("f", <<onnx_arg.f>>)]
  ELSE IF HasField(onnx_arg, "i") THEN [ok |-> TRUE, val |-> Val("i", <<onnx_arg.i>>)]
  ELSE IF HasField(onnx_arg, "s") THEN [ok |-> TRUE, val |-> Val("s", onnx_arg.s)]
  ELSE IF HasField(onnx_arg, "t") THEN [ok |-> TRUE, val |-> Val("t", <<onnx_arg.t>>)]
  ELSE IF onnx_arg.floats # <<>> THEN [ok |-> TRUE, val |-> Val("floats", onnx_arg.floats)]
  ELSE IF onnx_arg.ints # <<>> THEN [ok |-> TRUE, val |-> Val("ints", onnx_arg.ints)]
  ELSE IF onnx_arg.strings # <<>> THEN [ok |-> TRUE, val |-> Val("strings", onnx_arg.strings)]
  ELSE [ok |-> FALSE, val |-> None]

\* OnnxAttributes.from_onnx: d[arg.name] = convertAttributeProto(arg) for each
\* arg in order; the first failing conversion raises.
RECURSIVE from_onnx_loop(_, _)
from_onnx_loop(args, d) ==
  IF args = <<>> THEN [ok |-> TRUE, d |-> d]
  ELSE LET arg == Head(args)
           c == convertAttributeProto(arg)
       IN IF ~c.ok THEN [ok |-> FALSE, d |-> d]
          ELSE from_onnx_loop(Tail(args),
                 [k \in DOMAIN d \cup {arg.name} |->
                    IF k = arg.name THEN c.val ELSE d[k]])

from_onnx(args) == from_onnx_loop(args, EmptyDict)

\* dict.pop(key, None): the dictionary left
DictWithout(d, key) == [k \in DOMAIN d \ {key} |-> d[k]]

\* OnnxNode.__init__ once from_onnx returned attrs
OnnxNode(p, attrs) ==
  [op_type |-> p.op_type,
   attrs |-> DictWithout(attrs, "consumed_inputs"),
   consumed_inputs |-> IF "consumed_inputs" \in DOMAIN attrs
                         THEN attrs["consumed_inputs"] ELSE None,
   inputs |-> p.input,
   outputs |-> p.output]

NoNode == [op_type |-> <<>>, attrs |-> EmptyDict, consumed_inputs |-> None,
           inputs |-> <<>>, outputs |-> <<>>]

\* get_device_option(Device(device))
get_device_option(d) == IF d = "CPU" THEN "/cpu" ELSE "/gpu"

-----------------------------------------------------------------------------
(* The class tables of TensorflowBackend *)

onnx_tf_attribute_map ==
  ("scale" :> "stddev") @@ ("high" :> "maxval") @@ ("low" :> "minval") @@
  ("axes" :> "axis") @@ ("keepdims" :> "keep_dims") @@ ("axis" :> "dim")

onnx_tf_op_map ==
  ("relu" :> "tf.nn.relu") @@ ("pow" :> "tf.pow") @@
  ("random_normal" :> "tf.random_normal") @@
  ("random_uniform" :> "tf.random_uniform") @@
  ("reciprocal" :> "tf.reciprocal") @@
  ("reduce_log_sum_exp" :> "tf.reduce_logsumexp") @@
  ("reduce_max" :> "tf.reduce_max") @@ ("reduce_mean" :> "tf.reduce_mean") @@
  ("reduce_min" :> "tf.reduce_min") @@ ("reduce_prod" :> "tf.reduce_prod") @@
  ("reduce_sum" :> "tf.reduce_sum") @@ ("sigmoid" :> "tf.sigmoid") @@
  ("softmax" :> "tf.nn.softmax") @@ ("sqrt" :> "tf.sqrt") @@
  ("squeeze" :> "tf.squeeze") @@ ("tanh" :> "tf.tanh") @@
  ("transpose" :> "tf.transpose")

\* TensorProto.DataType code -> tf.DType enum value:
\* FLOAT, UINT8, INT8, UINT16, INT16, INT32, INT64, BOOL, FLOAT16, DOUBLE,
\* COMPLEX64, COMPLEX128 (STRING = 8, UINT32 = 12, UINT64 = 13 have no entry)
tensor_type_to_tf_type ==
  (1 :> 1) @@ (2 :> 4) @@ (3 :> 6) @@ (4 :> 17) @@ (5 :> 5) @@ (6 :> 3) @@
  (7 :> 9) @@ (9 :> 10) @@ (10 :> 19) @@ (11 :> 2) @@ (14 :> 8) @@ (15 :> 18)

\* the names dir(cls) lists: the methods and tables of TensorflowBackend and
\* of its base class Backend
DirCls ==
  {"handle_trivial", "handle_p_relu", "handle_pad",
   "handle_random_normal_like", "handle_random_uniform_like",
   "handle_reshape", "handle_selu", "handle_slice", "handle_split",
   "handle_sub", "handle_sum",
   "run_node", "op_name_to_lower", "_onnx_node_to_tensorflow_op",
   "onnx_tf_attribute_map", "onnx_tf_per_op_attr_map", "onnx_tf_op_map",
   "tensor_type_to_tf_type", "attr_translator",
   "prepare", "run_model", "supports_device"}

-----------------------------------------------------------------------------
(* Attribute value translation *)

Ok(v) == [ok |-> TRUE, val |-> v, err |-> NoErr]
Bad(e) == [ok |-> FALSE, val |-> None, err |-> e]

\* cls.tensor_type_to_tf_type[x]: int and float keys hash alike, bytes are
\* never a key, lists and protos are unhashable
TfTypeOf(x) ==
  IF x.t \in {"i", "f"}
    THEN IF x.v[1] \in DOMAIN tensor_type_to_tf_type
           THEN Ok(Val("tf.DType", <<tensor_type_to_tf_type[x.v[1]]>>))
           ELSE Bad(Raise("KeyError", "dtype"))
  ELSE IF x.t = "s" THEN Bad(Raise("KeyError", "dtype"))
  ELSE Bad(Raise("TypeError", "dtype"))

\* bool(x)
Bool(x) ==
  IF x.t \in {"i", "f"} THEN x.v[1] # 0
  ELSE IF x.t \in {"s", "floats", "ints", "strings"} THEN Len(x.v) > 0
  ELSE TRUE

attr_translator_keys == {"dtype", "keepdims"}

attr_translator(name, x) ==
  IF name = "dtype" THEN TfTypeOf(x)
  ELSE Ok(Val("bool", <<IF Bool(x) THEN 1 ELSE 0>>))

\* line 196-198: one attribute's value after automatic translation
TranslatedValue(name, x) ==
  IF name \in attr_translator_keys THEN attr_translator(name, x) ELSE Ok(x)

\* line 202-207: the tf name of one onnx attribute name
attr_map(name) ==
  IF name \in DOMAIN onnx_tf_attribute_map
    THEN onnx_tf_attribute_map[name] ELSE name

-----------------------------------------------------------------------------
(* Translation rules.  Each returns the set of outcomes the call can have:   *)
(* [kind |-> "list", list |-> ops], or [kind |-> "raise", err |-> e].        *)

Op(fn, args, kwargs) == [fn |-> fn, args |-> args, kwargs |-> kwargs]
ListOut(l) == [kind |-> "list", list |-> l, err |-> NoErr]
RaiseOut(e) == [kind |-> "raise", list |-> <<>>, err |-> e]
NoneOut == [kind |-> "none", list |-> <<>>, err |-> NoErr]

\* dict([(attr_map[x], y) for (x, y) in attrs.items()]): when several items
\* carry the same new key the last one in the dictionary's iteration order
\* stays, and that order is not fixed by the language
RECURSIVE SubstituteInto(_, _)
SubstituteInto(names, attrs) ==
  IF names = {} THEN {EmptyDict}
  ELSE LET nm == CHOOSE x \in names : TRUE
       IN {[k \in DOMAIN d \cup {nm} |-> IF k = nm THEN attrs[x] ELSE d[k]] :
             d \in SubstituteInto(names \ {nm}, attrs),
             x \in {y \in DOMAIN attrs : attr_map(y) = nm}}

SubstituteNames(attrs) ==
  SubstituteInto({attr_map(x) : x \in DOMAIN attrs}, attrs)

handle_trivial(n, idict) ==
  LET keys == DOMAIN n.attrs
      tr == [x \in keys |-> TranslatedValue(x, n.attrs[x])]
      bad == {x \in keys : ~tr[x].ok}
      attrs == [x \in keys |-> tr[x].val]
      unbound == {i \in 1..Len(n.inputs) : n.inputs[i] \notin DOMAIN idict}
      lowered == Join(op_name_to_lower(n.op_type))
  IN IF bad # {} THEN {RaiseOut(tr[x].err) : x \in bad}
     ELSE IF unbound # {} THEN {RaiseOut(Raise("KeyError", "input"))}
     ELSE IF lowered \notin DOMAIN onnx_tf_op_map
       THEN {RaiseOut(Raise("KeyError", "op"))}
     ELSE {ListOut(<<Op(onnx_tf_op_map[lowered],
                        [i \in 1..Len(n.inputs) |-> idict[n.inputs[i]]],
                        kw)>>) : kw \in SubstituteNames(attrs)}

\* input_dict[node.inputs[k]], k counted from 0 as in the source
InputErr(n, idict, k) ==
  IF Len(n.inputs) <= k THEN Raise("IndexError", "input")
  ELSE IF n.inputs[k + 1] \notin DOMAIN idict THEN Raise("KeyError", "input")
  ELSE NoErr
In(n, idict, k) == idict[n.inputs[k + 1]]

\* node.attrs[a]
AttrErr(n, a) ==
  IF a \notin DOMAIN n.attrs THEN Raise("KeyError", "attr") ELSE NoErr

\* cls.tensor_type_to_tf_type[node.attrs["dtype"]]
DtypeErr(n) ==
  IF "dtype" \notin DOMAIN n.attrs THEN Raise("KeyError", "attr")
  ELSE TfTypeOf(n.attrs["dtype"]).err

RECURSIVE FirstErr(_)
FirstErr(es) ==
  IF es = <<>> THEN NoErr
  ELSE IF Head(es) # NoErr THEN Head(es) ELSE FirstErr(Tail(es))

handle_p_relu(n, idict) ==
  LET e == FirstErr(<<InputErr(n, idict, 0), InputErr(n, idict, 1)>>)
  IN IF e # NoErr THEN {RaiseOut(e)}
     ELSE {ListOut(<<Op("pos + neg",
                        <<In(n, idict, 0), In(n, idict, 1)>>, EmptyDict)>>)}

\* len(node.attrs["paddings"]) and the reshape to [num_dim, 2]
PaddingsErr(n) ==
  IF "paddings" \notin DOMAIN n.attrs THEN Raise("KeyError", "attr")
  ELSE IF n.attrs["paddings"].t \notin {"s", "floats", "ints", "strings"}
    THEN Raise("TypeError", "attr")
  ELSE IF Len(n.attrs["paddings"].v) % 2 # 0 THEN Raise("ValueError", "attr")
  ELSE NoErr

handle_pad(n, idict) ==
  LET e == FirstErr(<<AttrErr(n, "mode"), AttrErr(n, "value"),
                      PaddingsErr(n), InputErr(n, idict, 0)>>)
  IN IF e # NoErr THEN {RaiseOut(e)}
     ELSE {ListOut(<<Op("tf.pad", <<In(n, idict, 0)>>,
                        ("paddings" :> n.attrs["paddings"]) @@
                        ("mode" :> n.attrs["mode"]) @@
                        ("constant_values" :> n.attrs["value"]))>>)}

Seed(n) == IF "seed" \in DOMAIN n.attrs THEN n.attrs["seed"] ELSE None

handle_random_normal_like(n, idict) ==
  LET e == FirstErr(<<InputErr(n, idict, 0), AttrErr(n, "mean"),
                      AttrErr(n, "scale"), DtypeErr(n)>>)
  IN IF e # NoErr THEN {RaiseOut(e)}
     ELSE {ListOut(<<Op("tf.random_normal", <<In(n, idict, 0)>>,
                        ("mean" :> n.attrs["mean"]) @@
                        ("stddev" :> n.attrs["scale"]) @@
                        ("dtype" :> TfTypeOf(n.attrs["dtype"]).val) @@
                        ("seed" :> Seed(n)))>>)}

handle_random_uniform_like(n, idict) ==
  LET e == FirstErr(<<InputErr(n, idict, 0), AttrErr(n, "low"),
                      AttrErr(n, "high"), DtypeErr(n)>>)
  IN IF e # NoErr THEN {RaiseOut(e)}
     ELSE {ListOut(<<Op("tf.random_uniform", <<In(n, idict, 0)>>,
                        ("minval" :> n.attrs["low"]) @@
                        ("maxval" :> n.attrs["high"]) @@
                        ("dtype" :> TfTypeOf(n.attrs["dtype"]).val) @@
                        ("seed" :> Seed(n)))>>)}

handle_reshape(n, idict) ==
  LET e == FirstErr(<<InputErr(n, idict, 0), AttrErr(n, "shape")>>)
  IN IF e # NoErr THEN {RaiseOut(e)}
     ELSE {ListOut(<<Op("tf.reshape", <<In(n, idict, 0)>>,
                        ("shape" :> n.attrs["shape"]))>>)}

handle_selu(n, idict) ==
  LET e == InputErr(n, idict, 0)
  IN IF e # NoErr THEN {RaiseOut(e)}
     ELSE {ListOut(<<Op("tf.nn.selu", <<In(n, idict, 0)>>, EmptyDict)>>)}

handle_slice(n, idict) ==
  LET e == FirstErr(<<InputErr(n, idict, 0), InputErr(n, idict, 1),
                      InputErr(n, idict, 2), InputErr(n, idict, 3)>>)
  IN IF e # NoErr THEN {RaiseOut(e)}
     ELSE {ListOut(<<Op("tf.slice",
                        <<In(n, idict, 0), In(n, idict, 1),
                          In(n, idict, 2), In(n, idict, 3)>>, EmptyDict)>>)}

\* tf.split returns a list of tensors; handle_split returns the list that
\* holds this one list
handle_split(n, idict) ==
  LET fromattr == "split" \in DOMAIN n.attrs
      e == FirstErr(<<IF fromattr THEN NoErr ELSE InputErr(n, idict, 1),
                      AttrErr(n, "axis"), InputErr(n, idict, 0)>>)
  IN IF e # NoErr THEN {RaiseOut(e)}
     ELSE {ListOut(<<Op("tf.split",
                        IF fromattr THEN <<In(n, idict, 0)>>
                        ELSE <<In(n, idict, 0), In(n, idict, 1)>>,
                        IF fromattr
                          THEN ("split" :> n.attrs["split"]) @@
                               ("axis" :> n.attrs["axis"])
                          ELSE ("axis" :> n.attrs["axis"]))>>)}

handle_sub(n, idict) ==
  LET e == FirstErr(<<InputErr(n, idict, 0), InputErr(n, idict, 1),
                      AttrErr(n, "broadcast")>>)
  IN IF e # NoErr THEN {RaiseOut(e)}
     ELSE {ListOut(<<Op("tf.subtract",
                        <<In(n, idict, 0), In(n, idict, 1)>>, EmptyDict)>>)}

handle_sum(n, idict) ==
  IF \E i \in 1..Len(n.inputs) : n.inputs[i] \notin DOMAIN idict
    THEN {RaiseOut(Raise("KeyError", "input"))}
    ELSE {ListOut(<<Op("tf.reduce_sum",
                       [i \in 1..Len(n.inputs) |-> idict[n.inputs[i]]],
                       EmptyDict)>>)}

\* getattr(cls, handler_name)(node, input_dict)
CallHandler(handler_name, n, idict) ==
  CASE handler_name = "handle_trivial" -> handle_trivial(n, idict)
    [] handler_name = "handle_p_relu" -> handle_p_relu(n, idict)
    [] handler_name = "handle_pad" -> handle_pad(n, idict)
    [] handler_name = "handle_random_normal_like" ->
         handle_random_normal_like(n, idict)
    [] handler_name = "handle_random_uniform_like" ->
         handle_random_uniform_like(n, idict)
    [] handler_name = "handle_reshape" -> handle_reshape(n, idict)
    [] handler_name = "handle_selu" -> handle_selu(n, idict)
    [] handler_name = "handle_slice" -> handle_slice(n, idict)
    [] handler_name = "handle_split" -> handle_split(n, idict)
    [] handler_name = "handle_sub" -> handle_sub(n, idict)
    [] handler_name = "handle_sum" -> handle_sum(n, idict)

\* _onnx_node_to_tensorflow_op: the set of [handler, out] the call can give;
\* falling off the end of the function returns None
_onnx_node_to_tensorflow_op(n, idict) ==
  LET lowered == Join(op_name_to_lower(n.op_type))
      handler_name == "handle_" \o lowered
  IN IF lowered \in DOMAIN onnx_tf_op_map
       THEN {[handler |-> "handle_trivial", out |-> o] :
               o \in handle_trivial(n, idict)}
     ELSE IF handler_name \in DirCls
       THEN {[handler |-> handler_name, out |-> o] :
               o \in CallHandler(handler_name, n, idict)}
     ELSE {[handler |-> "", out |-> NoneOut]}

-----------------------------------------------------------------------------
(* run_node, step by step *)

Event(ev, k) == [ev |-> ev, k |-> k]
Did(ev) == \E i \in DOMAIN log : log[i].ev = ev

NoResult == [names |-> <<>>, vals |-> <<>>]

\* dict(zip(names, vals)): zip stops at the shorter sequence, and a key that
\* occurs more than once keeps the value of its last occurrence
DictZipFirst(names, vals) ==
  LET n == IF Len(names) < Len(vals) THEN Len(names) ELSE Len(vals)
  IN [k \in {names[i] : i \in 1..n} |->
        vals[CHOOSE i \in 1..n :
               names[i] = k /\ \A j \in 1..n : names[j] = k => j >= i]]

DictZip(names, vals) ==
  LET n == IF Len(names) < Len(vals) THEN Len(names) ELSE Len(vals)
  IN [k \in {names[i] : i \in 1..n} |->
        vals[CHOOSE i \in 1..n :
               names[i] = k /\ \A j \in 1..n : names[j] = k => j <= i]]

\* line 155-157: node = OnnxNode(node); device_option = get_device_option(...)
Construct ==
  /\ pc = "start"
  /\ LET r == from_onnx(proto.attribute)
     IN IF r.ok
          THEN /\ node' = OnnxNode(proto, r.d)
               /\ device_option' = get_device_option(device)
               /\ pc' = "bind"
               /\ err' = err
          ELSE /\ pc' = "failed"
               /\ err' = Raise("ValueError", "attribute")
               /\ UNCHANGED <<node, device_option>>
  /\ log' = Append(log, Event("construct", 0))
  /\ UNCHANGED <<proto, inputs, device, input_dict, op_name_lowered, handler,
                 ops, sess, device_ctx, output_vals, result>>

\* line 158-169: feed_dict_raw and input_dict
BindInputs ==
  /\ pc = "bind"
  /\ IF ~inputs.isdict /\ Len(node.inputs) # Len(inputs.seq)
       THEN /\ pc' = "failed"
            /\ err' = Raise("AssertionError", "assert")
            /\ UNCHANGED input_dict
       ELSE LET feed_dict_raw == IF inputs.isdict THEN inputs.map
                                 ELSE DictZip(node.inputs, inputs.seq)
            IN /\ input_dict' = [k \in DOMAIN feed_dict_raw |->
                                   Constant(feed_dict_raw[k])]
               /\ pc' = "translate"
               /\ err' = err
  /\ log' = Append(log, Event("bind", 0))
  /\ UNCHANGED <<proto, inputs, device, node, device_option, op_name_lowered,
                 handler, ops, sess, device_ctx, output_vals, result>>

\* line 170: ops = cls._onnx_node_to_tensorflow_op(node, input_dict)
Translate ==
  /\ pc = "translate"
  /\ \E r \in _onnx_node_to_tensorflow_op(node, input_dict) :
       /\ handler' = r.handler
       /\ IF r.out.kind = "raise"
            THEN /\ pc' = "failed"
                 /\ err' = r.out.err
                 /\ ops' = ops
            ELSE /\ pc' = "session"
                 /\ err' = err
                 /\ ops' = r.out
  /\ op_name_lowered' = op_name_to_lower(node.op_type)
  /\ log' = Append(log, Event("translate", 0))
  /\ UNCHANGED <<proto, inputs, device, node, device_option, input_dict,
                 sess, device_ctx, output_vals, result>>

\* line 172: with tf.Session() as sess
OpenSession ==
  /\ pc = "session"
  /\ sess' = "open"
  /\ pc' = "device"
  /\ log' = Append(log, Event("open", 0))
  /\ UNCHANGED <<proto, inputs, device, node, device_option, input_dict,
                 op_name_lowered, handler, ops, device_ctx, output_vals,
                 result, err>>

\* line 173: with tf.device(device_option)
EnterDevice ==
  /\ pc = "device"
  /\ device_ctx' = device_option
  /\ pc' = "run"
  /\ log' = Append(log, Event("device", 0))
  /\ UNCHANGED <<proto, inputs, device, node, device_option, input_dict,
                 op_name_lowered, handler, ops, sess, output_vals, result,
                 err>>

\* line 174: one iteration of [sess.run(op) for op in ops]; iterating over
\* None raises TypeError
RunOp ==
  /\ pc = "run"
  /\ err = NoErr
  /\ IF ops.kind = "none"
       THEN /\ err' = Raise("TypeError", "ops")
            /\ UNCHANGED <<output_vals, log>>
       ELSE /\ Len(output_vals) < Len(ops.list)
            /\ output_vals' =
                 Append(output_vals, Eval(ops.list[Len(output_vals) + 1]))
            /\ log' = Append(log, Event("run", Len(output_vals) + 1))
            /\ err' = err
  /\ UNCHANGED <<pc, proto, inputs, device, node, device_option, input_dict,
                 op_name_lowered, handler, ops, sess, device_ctx, result>>

\* a plausible bug: the session closed by hand after the loop, not by a with
\* block, so that an exception inside the block leaves it open
ExitBlocksOnSuccessOnly ==
  /\ pc = "run"
  /\ \/ err # NoErr
     \/ ops.kind = "list" /\ Len(output_vals) = Len(ops.list)
  /\ device_ctx' = ""
  /\ sess' = IF err # NoErr THEN sess ELSE "closed"
  /\ pc' = IF err # NoErr THEN "failed" ELSE "return"
  /\ log' = Append(log, Event("close", 0))
  /\ UNCHANGED <<proto, inputs, device, node, device_option, input_dict,
                 op_name_lowered, handler, ops, output_vals, result, err>>

\* leaving the two with blocks of line 172-174, normally or by an exception
ExitBlocks ==
  /\ pc = "run"
  /\ \/ err # NoErr
     \/ ops.kind = "list" /\ Len(output_vals) = Len(ops.list)
  /\ device_ctx' = ""
  /\ sess' = "closed"
  /\ pc' = IF err # NoErr THEN "failed" ELSE "return"
  /\ log' = Append(log, Event("close", 0))
  /\ UNCHANGED <<proto, inputs, device, node, device_option, input_dict,
                 op_name_lowered, handler, ops, output_vals, result, err>>

\* line 175: namedtupledict('Outputs', node.outputs)(*output_vals); a
\* namedtuple takes exactly one argument per field
Return ==
  /\ pc = "return"
  /\ IF Len(output_vals) = Len(node.outputs)
       THEN /\ result' = [names |-> node.outputs, vals |-> output_vals]
            /\ pc' = "done"
            /\ err' = err
       ELSE /\ pc' = "failed"
            /\ err' = Raise("TypeError", "outputs")
            /\ result' = result
  /\ log' = Append(log, Event("return", 0))
  /\ UNCHANGED <<proto, inputs, device, node, device_option, input_dict,
                 op_name_lowered, handler, ops, sess, device_ctx,
                 output_vals>>

Next ==
  \/ Construct
  \/ BindInputs
  \/ Translate
  \/ OpenSession
  \/ EnterDevice
  \/ RunOp
  \/ ExitBlocks
  \/ Return

-----------------------------------------------------------------------------
(* The calls of run_node that are enumerated *)

OpRelu == <<"R","e","l","u">>
OpPow == <<"P","o","w">>
OpRandomNormal == <<"R","a","n","d","o","m","N","o","r","m","a","l">>
OpRandomUniform == <<"R","a","n","d","o","m","U","n","i","f","o","r","m">>
OpReciprocal == <<"R","e","c","i","p","r","o","c","a","l">>
OpReduceLogSumExp == <<"R","e","d","u","c","e","L","o","g","S","u","m","E","x","p">>
OpReduceMax == <<"R","e","d","u","c","e","M","a","x">>
OpReduceMean == <<"R","e","d","u","c","e","M","e","a","n">>
OpReduceMin == <<"R","e","d","u","c","e","M","i","n">>
OpReduceProd == <<"R","e","d","u","c","e","P","r","o","d">>
OpReduceSum == <<"R","e","d","u","c","e","S","u","m">>
OpSigmoid == <<"S","i","g","m","o","i","d">>
OpSoftmax == <<"S","o","f","t","m","a","x">>
OpSqrt == <<"S","q","r","t">>
OpSqueeze == <<"S","q","u","e","e","z","e">>
OpTanh == <<"T","a","n","h">>
OpTranspose == <<"T","r","a","n","s","p","o","s","e">>
OpPRelu == <<"P","R","e","l","u">>
OpPad == <<"P","a","d">>
OpRandomNormalLike == <<"R","a","n","d","o","m","N","o","r","m","a","l","L","i","k","e">>
OpRandomUniformLike == <<"R","a","n","d","o","m","U","n","i","f","o","r","m","L","i","k","e">>
OpReshape == <<"R","e","s","h","a","p","e">>
OpSelu == <<"S","e","l","u">>
OpSlice == <<"S","l","i","c","e">>
OpSplit == <<"S","p","l","i","t">>
OpSub == <<"S","u","b">>
OpSum == <<"S","u","m">>
OpConv == <<"C","o","n","v">>
OpTrivial == <<"T","r","i","v","i","a","l">>

TableOps ==
  {OpRelu, OpPow, OpRandomNormal, OpRandomUniform, OpReciprocal,
   OpReduceLogSumExp, OpReduceMax, OpReduceMean, OpReduceMin, OpReduceProd,
   OpReduceSum, OpSigmoid, OpSoftmax, OpSqrt, OpSqueeze, OpTanh, OpTranspose}

HandlerOps ==
  {OpPRelu, OpPad, OpRandomNormalLike, OpRandomUniformLike, OpReshape,
   OpSelu, OpSlice, OpSplit, OpSub, OpSum}

SeqsUpTo(S, n) == UNION {[1..k -> S] : k \in 0..n}

NameAlphabet == {"P", "o", "w", "_"}
InputNames == {"x", "y"}
InputValues == {1, 2}
FourInputs == <<"x", "y", "z", "w">>
OutputNames == <<"y", "z", "w", "v">>
Devices == {"CPU", "CUDA"}

Attr(name, has, f, i, s, t, floats, ints, strings) ==
  [name |-> name, has |-> has, f |-> f, i |-> i, s |-> s, t |-> t,
   floats |-> floats, ints |-> ints, strings |-> strings]
AttrI(name, i) == Attr(name, {"i"}, 0, i, <<>>, 0, <<>>, <<>>, <<>>)
AttrF(name, f) == Attr(name, {"f"}, f, 0, <<>>, 0, <<>>, <<>>, <<>>)
AttrS(name, s) == Attr(name, {"s"}, 0, 0, s, 0, <<>>, <<>>, <<>>)
AttrInts(name, ints) == Attr(name, {}, 0, 0, <<>>, 0, <<>>, ints, <<>>)

NodeProto(op_type, attribute, input, output) ==
  [op_type |-> op_type, attribute |-> attribute, input |-> input,
   output |-> output]

SeqInputs(vals) == [isdict |-> FALSE, seq |-> vals, map |-> <<>>]
DictInputs(map) == [isdict |-> TRUE, seq |-> <<>>, map |-> map]

\* the attributes a well-formed node of the operator carries
AttrsOf(op_type) ==
  IF op_type = OpSub THEN {<<AttrI("broadcast", 1)>>}
  ELSE IF op_type = OpSplit
    THEN {<<AttrI("axis", 0)>>,
          <<AttrI("axis", 0), AttrInts("split", <<1, 1>>)>>}
  ELSE {<<>>}

\* Split is the operator that declares several outputs
OutputsOf(op_type) ==
  IF op_type = OpSplit
    THEN {SubSeq(OutputNames, 1, k) : k \in 1..MaxOutputs}
    ELSE {<<"y">>}

\* attributes that let every specialized rule run to its end
RichAttrs ==
  <<AttrS("mode", <<67>>), AttrF("value", 0), AttrInts("paddings", <<0, 1>>),
    AttrF("mean", 0), AttrF("scale", 1), AttrF("low", 0), AttrF("high", 1),
    AttrI("dtype", 1), AttrInts("shape", <<1>>), AttrI("axis", 0),
    AttrI("broadcast", 1)>>

Call(p, given, d) == [proto |-> p, inputs |-> given, device |-> d]

GivenInputs ==
  {SeqInputs(v) : v \in SeqsUpTo(InputValues, MaxInputs)} \cup
  {DictInputs(m) : m \in UNION {[S -> InputValues] : S \in SUBSET InputNames}}

\* calls that vary the node's inputs and outputs, the inputs given and the
\* device
RunCalls ==
  UNION {
    {Call(NodeProto(op, at, inp, out), given, d) :
       at \in AttrsOf(op), inp \in SeqsUpTo(InputNames, MaxInputs),
       out \in OutputsOf(op), given \in GivenInputs, d \in Devices} :
    op \in {OpRelu, OpSum, OpSub, OpPRelu, OpSplit, OpConv}}

\* calls that vary the operator type: every operator with a rule, two without
\* one, and every string over NameAlphabet up to MaxNameLen
DispatchCalls ==
  {Call(NodeProto(op, at, FourInputs, <<"y">>), given, "CPU") :
     op \in TableOps \cup HandlerOps \cup {OpConv, OpTrivial} \cup
            (SeqsUpTo(NameAlphabet, MaxNameLen) \ {<<>>}),
     at \in {<<>>, RichAttrs},
     given \in {SeqInputs(<<1, 2, 1, 2>>),
                DictInputs([k \in {"x", "y", "z", "w"} |-> 1])}}

\* calls that vary the attributes of a node translated by handle_trivial:
\* up to MaxAttrs attributes with distinct names among the keys and the values
\* of onnx_tf_attribute_map, "dtype" and "consumed_inputs"
AttrNames ==
  <<"scale", "stddev", "high", "maxval", "low", "minval", "axes", "axis",
    "dim", "keepdims", "keep_dims", "dtype", "consumed_inputs">>

RECURSIVE AttrLists(_, _)
AttrLists(from, k) ==
  IF k = 0 THEN {<<>>}
  ELSE {<<>>} \cup
       UNION {{<<AttrI(AttrNames[i], v)>> \o rest :
                 v \in 0..1, rest \in AttrLists(i + 1, k - 1)} :
              i \in from..Len(AttrNames)}

AttrCalls ==
  {Call(NodeProto(op, at, <<"x">>, <<"y">>), SeqInputs(<<1>>), "CPU") :
     op \in {OpReduceSum, OpRandomNormal, OpSoftmax},
     at \in AttrLists(1, MaxAttrs)}

\* calls that vary which fields of an AttributeProto are populated
ProtoPool ==
  {Attr(nm, has, 1, 2, s, 3, floats, ints, strings) :
     nm \in {"value", "keepdims"}, has \in SUBSET {"f", "i", "s", "t"},
     s \in {<<>>, <<4>>},
     floats \in SeqsUpTo({5}, MaxListLen), ints \in SeqsUpTo({6}, MaxListLen),
     strings \in SeqsUpTo({7}, MaxListLen)}

ProtoCalls ==
  {Call(NodeProto(OpRelu, at, <<"x">>, <<"y">>), SeqInputs(<<1>>), "CPU") :
     at \in {<<p>> : p \in ProtoPool} \cup
            {<<AttrI("keepdims", 0), p>> : p \in ProtoPool}}

Calls == RunCalls \cup DispatchCalls \cup AttrCalls \cup ProtoCalls

Init ==
  /\ \E c \in Calls :
       /\ proto = c.proto
       /\ inputs = c.inputs
       /\ device = c.device
  /\ pc = "start"
  /\ node = NoNode
  /\ device_option = ""
  /\ input_dict = EmptyDict
  /\ op_name_lowered = <<>>
  /\ handler = ""
  /\ ops = NoneOut
  /\ sess = "none"
  /\ device_ctx = ""
  /\ output_vals = <<>>
  /\ result = NoResult
  /\ err = NoErr
  /\ log = <<>>

Spec == Init /\ [][Next]_vars

-----------------------------------------------------------------------------
(* Properties *)

PerOpRules ==
  {"handle_p_relu", "handle_pad", "handle_random_normal_like",
   "handle_random_uniform_like", "handle_reshape", "handle_selu",
   "handle_slice", "handle_split", "handle_sub", "handle_sum"}

\* _onnx_node_to_tensorflow_op was called and returned (did not raise)
TranslationReturned ==
  Did("translate") /\ err.what \notin {"attr", "input", "dtype", "op"}

\* handle_trivial was called and returned its one operator
TrivialReturned ==
  TranslationReturned /\ handler = "handle_trivial" /\ ops.kind = "list"

LoweredName == Join(op_name_lowered)

\* C1: whatever the op type of the node, _onnx_node_to_tensorflow_op selects
\* a translation rule and returns a non-empty list of operators, never nothing.
C1_EveryNodeTranslated ==
  TranslationReturned =>
    /\ handler # ""
    /\ ops.kind = "list"
    /\ Len(ops.list) >= 1

\* C2: whenever the translation of a node produced operators, run_node
\* returns a record with one field per output name, in the order of
\* node.outputs, field k holding the evaluated value of the k-th operator;
\* also for a node that declares several outputs.
C2_OneFieldPerOutput ==
  (TranslationReturned /\ ops.kind = "list" /\ pc \in {"done", "failed"}) =>
    /\ pc = "done"
    /\ result.names = node.outputs
    /\ Len(result.vals) = Len(node.outputs)
    /\ \A k \in 1..Len(node.outputs) : result.vals[k] = Eval(ops.list[k])

\* C3: handle_trivial passes every attribute of the node to the operator
\* under onnx_tf_attribute_map[name] when name is a key of the map and under
\* its own name otherwise, the map applied once ("axes" as "axis", "axis" as
\* "dim").
C3_EveryAttributeRenamedOnce ==
  TrivialReturned =>
    LET kw == ops.list[1].kwargs
        tfname(x) == IF x \in DOMAIN onnx_tf_attribute_map
                       THEN onnx_tf_attribute_map[x] ELSE x
    IN /\ \A x \in DOMAIN node.attrs :
            /\ tfname(x) \in DOMAIN kw
            /\ kw[tfname(x)] = TranslatedValue(x, node.attrs[x]).val
       /\ "axes" \in DOMAIN node.attrs => "axis" \in DOMAIN kw
       /\ "axis" \in DOMAIN node.attrs => "dim" \in DOMAIN kw

\* C4: handle_trivial coerces values by the onnx attribute name before it
\* renames: the operator receives for "dtype" the entry of
\* tensor_type_to_tf_type, for "keepdims" its boolean (under "keep_dims"), and
\* for every other attribute the value unchanged.
C4_ValuesCoercedByOnnxName ==
  TrivialReturned =>
    LET kw == ops.list[1].kwargs
        coerced(x) ==
          IF x = "dtype"
            THEN Val("tf.DType", <<tensor_type_to_tf_type[node.attrs[x].v[1]]>>)
          ELSE IF x = "keepdims"
            THEN Val("bool", <<IF Bool(node.attrs[x]) THEN 1 ELSE 0>>)
          ELSE node.attrs[x]
    IN /\ \A x \in DOMAIN node.attrs : kw[attr_map(x)] = coerced(x)
       /\ "keepdims" \in DOMAIN node.attrs => kw["keep_dims"].t = "bool"

\* C9: renaming in handle_trivial loses no attribute: the operator receives
\* as many keyword arguments as the node has attributes.
C9_NoAttributeLost ==
  TrivialReturned =>
    Cardinality(DOMAIN ops.list[1].kwargs) = Cardinality(DOMAIN node.attrs)

\* C8: a node whose lowered op name is a key of onnx_tf_op_map is translated
\* by handle_trivial, a specialized method is called only for a name outside
\* the table and is one of the per-operator rules, and no op type outside the
\* table reaches handle_trivial.
C8_TablePrecedence ==
  Did("translate") =>
    /\ LoweredName \in DOMAIN onnx_tf_op_map => handler = "handle_trivial"
    /\ handler = "handle_trivial" => LoweredName \in DOMAIN onnx_tf_op_map
    /\ handler \notin {"", "handle_trivial"} =>
         handler \in PerOpRules /\ LoweredName \notin DOMAIN onnx_tf_op_map

\* the fields convertAttributeProto knows, in the order the claim gives
FieldOrder == <<"f", "i", "s", "t", "floats", "ints", "strings">>

\* a scalar field is populated when it is set, a repeated one when it holds
\* at least one element
Populated(p, fld) ==
  IF fld \in {"f", "i", "s", "t"} THEN fld \in p.has ELSE Len(p[fld]) > 0

CarriesNothing(p) == \A k \in DOMAIN FieldOrder : ~Populated(p, FieldOrder[k])

FirstPopulated(p) ==
  FieldOrder[CHOOSE k \in DOMAIN FieldOrder :
               /\ Populated(p, FieldOrder[k])
               /\ \A j \in 1..(k - 1) : ~Populated(p, FieldOrder[j])]

\* the Python object of one field: the scalar, the bytes, the proto, the list
ObjectOf(p, fld) ==
  Val(fld, IF fld \in {"f", "i", "t"} THEN <<p[fld]>> ELSE p[fld])

\* the last attribute of the node proto with the given name
LastNamed(nm) ==
  proto.attribute[CHOOSE k \in DOMAIN proto.attribute :
                    /\ proto.attribute[k].name = nm
                    /\ \A j \in DOMAIN proto.attribute :
                         proto.attribute[j].name = nm => j <= k]

\* C5: convertAttributeProto returns the value of the first populated field
\* in the order f, i, s, t, floats, ints, strings, and raises ValueError
\* exactly when the attribute carries none of them.
C5_FirstPopulatedField ==
  Did("construct") =>
    /\ err.what = "attribute" <=>
         \E k \in DOMAIN proto.attribute : CarriesNothing(proto.attribute[k])
    /\ err.what = "attribute" => err.exc = "ValueError" /\ pc = "failed"
    /\ err.what # "attribute" =>
         /\ DOMAIN node.attrs \cup
              (IF node.consumed_inputs = None THEN {} ELSE {"consumed_inputs"})
            = {proto.attribute[k].name : k \in DOMAIN proto.attribute}
         /\ \A nm \in DOMAIN node.attrs :
              node.attrs[nm] = ObjectOf(LastNamed(nm), FirstPopulated(LastNamed(nm)))

\* an attribute with several fields populated was converted
C5_Witness ==
  /\ Did("construct")
  /\ err = NoErr
  /\ \E k \in DOMAIN proto.attribute :
       /\ proto.attribute[k].has = {"f", "i", "t"}
       /\ proto.attribute[k].ints # <<>>
       /\ proto.attribute[k].name = "value"
       /\ node.attrs["value"].t = "f"

\* the steps of a run_node call that evaluates n operators, in order
ExpectedLog(n) ==
  <<Event("construct", 0), Event("bind", 0), Event("translate", 0),
    Event("open", 0), Event("device", 0)>> \o
  [k \in 1..n |-> Event("run", k)] \o
  <<Event("close", 0), Event("return", 0)>>

IsPrefix(a, b) == Len(a) <= Len(b) /\ \A i \in DOMAIN a : a[i] = b[i]

UpperAfterFirst(name) == {i \in 2..Len(name) : IsUpper(name[i])}

\* where character i of the name stands in the lowered name
PosIn(name, i) == i + Cardinality({j \in UpperAfterFirst(name) : j <= i})

\* the lowered names of the operators the table and the methods stand for
LoweredTableOps == {Join(op_name_to_lower(op)) : op \in TableOps}
LoweredHandlerOps ==
  {"handle_" \o Join(op_name_to_lower(op)) : op \in HandlerOps}
LoweredReduceLogSumExp == Join(op_name_to_lower(OpReduceLogSumExp))
LoweredPRelu == Join(op_name_to_lower(OpPRelu))

\* C7: op_name_to_lower inserts one underscore before every uppercase letter
\* that is not the first character and lowercases the result: the output has
\* no uppercase letter, deleting the inserted underscores gives the lowercased
\* input, and every key of onnx_tf_op_map and every handle_<name> method is
\* the image of its operator name.
C7_SnakeCase ==
  /\ Did("translate") =>
       LET name == node.op_type
           out == op_name_lowered
       IN /\ \A i \in DOMAIN out : ~IsUpper(out[i])
          /\ Len(out) = Len(name) + Cardinality(UpperAfterFirst(name))
          /\ \A i \in DOMAIN name :
               /\ out[PosIn(name, i)] = ToLower(name[i])
               /\ i \in UpperAfterFirst(name) => out[PosIn(name, i) - 1] = "_"
  /\ LoweredTableOps = DOMAIN onnx_tf_op_map
  /\ LoweredHandlerOps = PerOpRules
  /\ LoweredReduceLogSumExp = "reduce_log_sum_exp"
  /\ LoweredPRelu = "p_relu"

\* a name with two adjacent capitals was lowered
C7_Witness ==
  /\ Did("translate")
  /\ node.op_type = OpPRelu
  /\ LoweredName = "p_relu"
  /\ handler = "handle_p_relu"

\* C10 as stated: inputs given as a sequence of another length than
\* node.inputs are rejected by the assertion before any translation or
\* evaluation; otherwise the i-th value is bound to the i-th input name, and
\* every input name the translation looks up is bound.
C10_PositionalBinding ==
  (~inputs.isdict /\ Did("bind")) =>
    /\ Len(node.inputs) # Len(inputs.seq) =>
         /\ err = Raise("AssertionError", "assert")
         /\ pc = "failed"
         /\ ~Did("translate") /\ ~Did("run")
    /\ Len(node.inputs) = Len(inputs.seq) =>
         /\ \A i \in DOMAIN node.inputs :
              input_dict[node.inputs[i]] = Constant(inputs.seq[i])
         /\ err # Raise("KeyError", "input")

\* C10 amended: as stated, except that an input name is bound to the value at
\* the last position where node.inputs carries that name (the i-th value when
\* the name does not occur again after position i).
C10_LastOccurrenceBinding ==
  (~inputs.isdict /\ Did("bind")) =>
    /\ Len(node.inputs) # Len(inputs.seq) =>
         /\ err = Raise("AssertionError", "assert")
         /\ pc = "failed"
         /\ ~Did("translate") /\ ~Did("run")
    /\ Len(node.inputs) = Len(inputs.seq) =>
         /\ DOMAIN input_dict = {node.inputs[i] : i \in DOMAIN node.inputs}
         /\ \A i \in DOMAIN node.inputs :
              (\A j \in DOMAIN node.inputs :
                 j > i => node.inputs[j] # node.inputs[i])
              => input_dict[node.inputs[i]] = Constant(inputs.seq[i])
         /\ err # Raise("KeyError", "input")

\* a node that names the same input twice was given two different values and
\* translated
C10_Witness ==
  /\ ~inputs.isdict
  /\ Did("translate")
  /\ node.inputs = <<"x", "x">>
  /\ inputs.seq = <<1, 2>>
  /\ input_dict["x"] = Constant(2)

====
